---- MODULE Spec2Model ----
(***************************************************************************)
(* Model of the WeDo 2.0 protocol engine: the Hub Session (HubManager),    *)
(* its background tasks, the port-notification handler and the Device      *)
(* Manager built on the session's write primitive.                         *)
(*                                                                         *)
(* Every API call is made by a client task and is split at the points      *)
(* where the Go code can be interleaved with another task: acquiring       *)
(* connectionMutex, the adapter I/O done while the lock is held, sleeps.   *)
(* The BLE adapter is the environment: scans, link establishment, GATT     *)
(* discovery, reads and writes have nondeterministic outcomes.             *)
(***************************************************************************)
EXTENDS Integers, Sequences, FiniteSets, TLC

\* ------------------------------------------------------------------ bounds
MaxConnects == 2      \* Connect calls made in one behaviour
MaxNotifs == 2        \* port-info notifications delivered in one behaviour
MaxTimedRuns == 1     \* SetMotorPower calls with duration > 0 in one behaviour

\* the task driving the connection and the task issuing commands
Clients == {"ui", "prog"}
CfgNames == <<"cfg1", "cfg2", "cfg3", "cfg4">>
StopNames == <<"stop1", "stop2", "stop3">>
DetNames == <<"det1", "det2", "det3">>
\* goroutines: the delayed configure task of each connection notification,
\* the stop task of each timed SetMotorPower and the delayed detection task
\* of each successful Connect
CfgTasks == {CfgNames[i] : i \in 1..MaxNotifs}
StopTasks == {StopNames[i] : i \in 1..MaxTimedRuns}
DetTasks == {DetNames[i] : i \in 1..MaxConnects}
Tasks == Clients \cup CfgTasks \cup StopTasks \cup DetTasks

\* ------------------------------------------------------- protocol constants
OUTPUT_COMMAND_UUID == "00001565-1212-efde-1523-785feabcd123"
INPUT_COMMAND_UUID == "00001563-1212-efde-1523-785feabcd123"
PORT_INFO_UUID == "00001527-1212-efde-1523-785feabcd123"
DEVICE_NAME_UUID == "00002a00-0000-1000-8000-00805f9b34fb"
FIRMWARE_REVISION_UUID == "00002a26-0000-1000-8000-00805f9b34fb"
BATTERY_LEVEL_UUID == "00002a19-0000-1000-8000-00805f9b34fb"
FIRMWARE_CHAR_UUID == "00004f01-1212-efde-1523-785feabcd123"
\* a UUID no hub exposes, used by callers that address a missing characteristic
ABSENT_UUID == "0000ffff-0000-1000-8000-00805f9b34fb"

DEVICE_TYPE_MOTOR == 1
DEVICE_TYPE_VOLTAGE == 20
DEVICE_TYPE_CURRENT == 21
DEVICE_TYPE_PIEZO_TONE == 22
DEVICE_TYPE_RGB_LIGHT == 23
DEVICE_TYPE_TILT_SENSOR == 34
DEVICE_TYPE_MOTION_SENSOR == 35

\* the characteristics a hub can expose to discovery
HubUUIDs ==
  {OUTPUT_COMMAND_UUID, INPUT_COMMAND_UUID, PORT_INFO_UUID, DEVICE_NAME_UUID,
   FIRMWARE_REVISION_UUID, BATTERY_LEVEL_UUID, FIRMWARE_CHAR_UUID}

\* what one run of discoverAllServices adds to the table: nothing (service
\* discovery failed) or every characteristic of the hub
DiscoveryResults == {{}, HubUUIDs}

\* the characteristics subscribeToImportantNotifications subscribes to
NotifyUUIDs == {BATTERY_LEVEL_UUID, PORT_INFO_UUID, FIRMWARE_CHAR_UUID}

\* port ids seen in notifications and commands; 3 stands for an internal port
Ports == {1, 2, 3, 6}

\* ------------------------------------------------------------------- state
VARIABLES
  isConnected,                \* hm.isConnected
  characteristics,            \* keys of hm.characteristics
  subscribedCharacteristics,  \* keys of hm.subscribedCharacteristics
  hubInfo,                    \* *hm.hubInfo
  connectionStateCallback,    \* hm.connectionStateCallback != nil (the GUI sets it at start)
  deviceUpdateCallback,       \* hm.deviceUpdateCallback != nil (the GUI sets it at start)
  rwWriter,                   \* task holding connectionMutex.Lock, or "none"
  rwReaders,                  \* tasks holding connectionMutex.RLock
  linkUp,                     \* the adapter's BLE link to the hub is alive
  notifying,                  \* characteristics the adapter delivers notifications for
  heap,                       \* the Device objects allocated so far
  hmDevices,                  \* hm.devices: port -> index into heap, 0 = no entry
  dmDevices,                  \* dm.devices: port -> index into heap, 0 = no entry
  connectCalls,               \* Connect calls made so far
  notifs,                     \* port-info notifications delivered so far
  timedRuns,                  \* timed SetMotorPower calls made so far
  th,                         \* every task's position and locals
  info,                       \* readAllDeviceInfo goroutine of each Connect
  sub,                        \* subscribeToImportantNotifications goroutine of each Connect
  obs,                        \* what the last step did: adapter I/O, return, callbacks
  currentState,               \* pm.currentState of the Program Manager
  program,                    \* pm.program.Blocks
  pm                          \* the tasks inside the Program Manager: position and locals

sessionVars == <<isConnected, characteristics, subscribedCharacteristics, hubInfo,
                 connectionStateCallback, deviceUpdateCallback, linkUp, notifying>>
lockVars == <<rwWriter, rwReaders>>
registryVars == <<heap, hmDevices, dmDevices>>
budgetVars == <<connectCalls, notifs, timedRuns>>
programVars == <<currentState, program, pm>>
vars == <<sessionVars, lockVars, registryVars, budgetVars, th, info, sub, obs, programVars>>

EmptyHubInfo == [Name |-> "", Address |-> "", FirmwareVersion |-> "", Battery |-> 0]

HubAddress == "24:71:89:00:00:01"
AdvertisedName == "LPF2 Smart Hub"
GattName == "WeDo"
FirmwareString == "1.0.06"
BatteryReading == 87
ToneFrequency == 440
LedColor == <<255, 0, 128>>

IdleTask ==
  [pc |-> "idle", op |-> "none", uuid |-> "", data |-> <<>>, port |-> 0,
   power |-> 0, freq |-> 0, dur |-> 0, phase |-> 0, dtype |-> 0, obj |-> 0, io |-> <<>>]

\* --------------------------------------------------------- observation of a step
\* wire: adapter reads and writes issued; ret: the call that returned; connCb,
\* devCb: arguments the connection-state and device-change callbacks were
\* called with; notif: the port-info frame handled
Obs(w, r, cc, dc) ==
  [wire |-> w, ret |-> r, connCb |-> cc, devCb |-> dc, notif |-> <<>>]
NotifObs(frame, dc) ==
  [wire |-> <<>>, ret |-> <<>>, connCb |-> <<>>, devCb |-> dc, notif |-> <<frame>>]
Quiet == Obs(<<>>, <<>>, <<>>, <<>>)

IO(c, kind, uuid, data) == [who |-> c, kind |-> kind, uuid |-> uuid, data |-> data]

\* the record of a call that returns: its arguments, result and adapter I/O
Return(c, t, res, flag, val) ==
  [who |-> c, op |-> t.op, uuid |-> t.uuid, port |-> t.port, power |-> t.power,
   freq |-> t.freq,
   dur |-> t.dur, res |-> res, flag |-> flag, val |-> val, io |-> t.io]

\* ------------------------------------------------------------ connectionMutex
\* a Lock that does not wait for the readers to leave
LockIgnoringReaders == rwWriter = "none"
LockFree == rwWriter = "none" /\ rwReaders = {}
NoWriter == rwWriter = "none"

\* --------------------------------------------------------------- command codec
\* byte(int(0x54*powerFloat) + 0xF0) resp. + 0x10; int() truncates toward zero
\* the power percentage sent as it is, without the scaling to 0x10..0x64
SpeedByteUnscaled(power) == power % 256
\* the reverse powers scaled into the forward band
SpeedByteSignBlind(power) ==
  IF power = 0 THEN 0
  ELSE (((84 * (IF power < 0 THEN 0 - power ELSE power)) \div 100) + 16) % 256
\* the reverse band running the other way: full reverse at 0xF0
SpeedByteMirrored(power) ==
  IF power < 0 THEN (156 + ((84 * (0 - power)) \div 100)) % 256
  ELSE IF power > 0 THEN (((84 * power) \div 100) + 16) % 256
  ELSE 0
SpeedByte(power) ==
  IF power < 0 THEN (240 - ((84 * (0 - power)) \div 100)) % 256
  ELSE IF power > 0 THEN (((84 * power) \div 100) + 16) % 256
  ELSE 0

MotorFrame(port, power) == <<port, 1, 1, SpeedByte(power)>>
\* the run frame of the slowest speed sent in place of the stop frame
CreepMotorFrame(port) == <<port, 1, 1, 16>>
StopMotorFrame(port) == <<port, 1, 1, 0>>
LedModeFrame(port, mode) == <<1, 2, port, 23, mode, 1, 0, 0, 0, 2, 1>>
ColorFrame(rgb) == <<6, 4, 3, rgb[1], rgb[2], rgb[3]>>
\* the tone frame with the high byte of each value first
ToneFrameBigEndian(port, freq, dur) ==
  <<port, 2, 4, (freq \div 256) % 256, freq % 256, (dur \div 256) % 256, dur % 256>>
ToneFrame(port, freq, dur) ==
  <<port, 2, 4, freq % 256, (freq \div 256) % 256, dur % 256, (dur \div 256) % 256>>
StopToneFrame(port) == <<port, 3, 0>>
\* manualDeviceDetection: the motor started at a very low speed
ProbeRunFrame(port) == <<port, 1, 1, 5>>
\* detectBuiltInLED: green
ProbeColor == <<0, 255, 0>>

\* configureDevice: the setup frame of a device type, <<>> for an unknown type
ConfigureFrame(port, dtype) ==
  IF dtype \in {DEVICE_TYPE_TILT_SENSOR, DEVICE_TYPE_RGB_LIGHT}
  THEN <<1, 2, port, dtype, 1, 1, 0, 0, 0, 2, 1>>
  ELSE IF dtype \in {DEVICE_TYPE_MOTOR, DEVICE_TYPE_MOTION_SENSOR, DEVICE_TYPE_PIEZO_TONE,
                     DEVICE_TYPE_VOLTAGE, DEVICE_TYPE_CURRENT}
  THEN <<1, 2, port, dtype, 0, 1, 0, 0, 0, 2, 1>>
  ELSE <<>>

\* ------------------------------------------------------------------ the API
HubCalls ==
  {[op |-> o, uuid |-> "", port |-> 0, power |-> 0, freq |-> 0, dur |-> 0] :
     o \in {"Connect", "Disconnect", "IsConnected", "GetHubInfo"}}

RawCalls ==
  {[op |-> o, uuid |-> u, port |-> 0, power |-> 0, freq |-> 0, dur |-> 0] :
     o \in {"Write", "Read"}, u \in {OUTPUT_COMMAND_UUID, ABSENT_UUID}}

DmOps == {"SetMotorPower", "SetMotorPowerAndWait", "SetLEDColor", "PlayTone",
          "PlayToneAndWait", "StopTone"}

DmCalls ==
  {[op |-> o, uuid |-> "", port |-> p, power |-> 50, freq |-> 0, dur |-> d] :
     o \in {"SetMotorPower", "SetMotorPowerAndWait"}, p \in {1}, d \in {0, 100}}
  \cup {[op |-> "SetLEDColor", uuid |-> "", port |-> p, power |-> 0, freq |-> 0, dur |-> 0] :
          p \in {2, 6}}
  \cup {[op |-> o, uuid |-> "", port |-> 1, power |-> 0, freq |-> ToneFrequency, dur |-> d] :
          o \in {"PlayTone", "PlayToneAndWait"}, d \in {0, 100}}
  \cup {[op |-> "StopTone", uuid |-> "", port |-> 1, power |-> 0, freq |-> 0, dur |-> 0]}

\* the arguments of the encoders: power is an int8, frequency and duration
\* are uint16, sampled at the byte boundaries
PowerArgs == -128..127
ToneArgs == {0, 1, 255, 256, ToneFrequency, 65535}

\* the motor and tone commands over the whole range of their arguments
EncoderCalls ==
  {[op |-> o, uuid |-> "", port |-> 1, power |-> p, freq |-> 0, dur |-> 0] :
     o \in {"SetMotorPower", "SetMotorPowerAndWait"}, p \in PowerArgs}
  \cup {[op |-> o, uuid |-> "", port |-> 1, power |-> 0, freq |-> f, dur |-> d] :
          o \in {"PlayTone", "PlayToneAndWait"}, f \in ToneArgs, d \in ToneArgs}

\* Connect and Disconnect only
LinkCalls == {call \in HubCalls : call.op \in {"Connect", "Disconnect"}}

EntryPc(op) ==
  CASE op = "Connect" -> "conn_lock"
    [] op = "Disconnect" -> "disc_lock"
    [] op = "IsConnected" -> "isconn"
    [] op = "GetHubInfo" -> "getinfo"
    [] op = "Write" -> "w_check"
    [] op = "Read" -> "r_check"
    [] OTHER -> "dm_check"

\* the frame a direct WriteCharacteristic caller sends
RawFrame == <<1, 1, 1, 0>>

\* task c makes one of the given calls
Invoke(c, calls) ==
  /\ th[c].pc = "idle"
  /\ \E call \in calls :
       LET timed == call.op = "SetMotorPower" /\ call.dur > 0 IN
       /\ call.op = "Connect" => connectCalls < MaxConnects
       /\ timed => timedRuns < MaxTimedRuns
       /\ connectCalls' = IF call.op = "Connect" THEN connectCalls + 1 ELSE connectCalls
       /\ timedRuns' = IF timed THEN timedRuns + 1 ELSE timedRuns
       /\ th' = [th EXCEPT ![c] =
                   [IdleTask EXCEPT !.pc = EntryPc(call.op), !.op = call.op,
                      !.uuid = call.uuid, !.port = call.port, !.power = call.power,
                      !.freq = call.freq,
                      !.dur = call.dur, !.phase = 1,
                      !.data = IF call.op = "Write" THEN RawFrame ELSE <<>>]]
  /\ obs' = Quiet
  /\ UNCHANGED <<sessionVars, lockVars, registryVars, notifs, info, sub>>
  /\ UNCHANGED programVars

\* the connection task calls the session API
SessionCall == Invoke("ui", HubCalls)
\* the connection task connects and disconnects
LinkCall == Invoke("ui", LinkCalls)
\* the command task calls WriteCharacteristic / ReadCharacteristic
RawCall == Invoke("prog", RawCalls)
\* the command task calls the Device Manager
DeviceCall == Invoke("prog", DmCalls)
\* the command task calls a motor or tone command with any arguments
EncoderCall == Invoke("prog", EncoderCalls)

\* ------------------------------------------------------------- Hub Session
\* Connect: Lock, and the nested Disconnect when already connected
ConnectEnter(c) ==
  /\ th[c].pc = "conn_lock"
  /\ LockFree
  /\ rwWriter' = c
  /\ th' = [th EXCEPT ![c].pc = IF isConnected THEN "disc_lock" ELSE "conn_scan"]
  /\ obs' = Quiet
  /\ UNCHANGED <<sessionVars, rwReaders, registryVars, budgetVars, info, sub>>
  /\ UNCHANGED programVars

\* Connect: the bounded scan for the target address
ConnectScan(c) ==
  /\ th[c].pc = "conn_scan"
  /\ \E outcome \in {"ScanFailed", "NotFound", "found"} :
       IF outcome = "found"
       THEN /\ th' = [th EXCEPT ![c].pc = "conn_link"]
            /\ obs' = Quiet
            /\ UNCHANGED rwWriter
       ELSE /\ th' = [th EXCEPT ![c] = IdleTask]
            /\ obs' = Obs(<<>>, <<Return(c, th[c], outcome, FALSE, EmptyHubInfo)>>, <<>>, <<>>)
            /\ rwWriter' = "none"
  /\ UNCHANGED <<sessionVars, rwReaders, registryVars, budgetVars, info, sub>>
  /\ UNCHANGED programVars

\* the goroutine connectToHub starts once Connect returned success: it
\* sleeps and then runs the device detection
DetectorTask == [IdleTask EXCEPT !.pc = "det_wait", !.op = "Detect"]

\* Connect: adapter.Connect, then the session set-up done under the lock:
\* discovery, the two goroutines, the connection-state callback; on success
\* the caller, connectToHub, starts its detection goroutine
ConnectLinkWith(c, marked) ==
  /\ th[c].pc = "conn_link"
  /\ \/ /\ obs' = Obs(<<>>, <<Return(c, th[c], "ConnectFailed", FALSE, EmptyHubInfo)>>,
                      <<>>, <<>>)
        /\ isConnected' = marked
        /\ th' = [th EXCEPT ![c] = IdleTask]
        /\ UNCHANGED <<characteristics, subscribedCharacteristics, hubInfo,
                       connectionStateCallback, deviceUpdateCallback, linkUp, notifying,
                       info, sub>>
     \/ \E found \in DiscoveryResults :
          /\ linkUp' = TRUE
          /\ isConnected' = TRUE
          /\ hubInfo' = [hubInfo EXCEPT !.Name = AdvertisedName, !.Address = HubAddress]
          /\ characteristics' = characteristics \cup found
          /\ info' = [info EXCEPT ![connectCalls] = "name"]
          /\ sub' = [sub EXCEPT ![connectCalls] = "start"]
          /\ obs' = Obs(<<>>, <<Return(c, th[c], "ok", FALSE, EmptyHubInfo)>>,
                        IF connectionStateCallback THEN <<TRUE>> ELSE <<>>, <<>>)
          /\ th' = [th EXCEPT ![c] = IdleTask, ![DetNames[connectCalls]] = DetectorTask]
          /\ UNCHANGED <<subscribedCharacteristics, connectionStateCallback,
                         deviceUpdateCallback, notifying>>
  /\ rwWriter' = "none"
  /\ UNCHANGED <<rwReaders, registryVars, budgetVars>>
  /\ UNCHANGED programVars

\* hm.isConnected = true moved above adapter.Connect
ConnectLinkMarkingEarly(c) == ConnectLinkWith(c, TRUE)
\* isConnected is set only after adapter.Connect succeeded
ConnectLink(c) == ConnectLinkWith(c, isConnected)

\* Disconnect, called by a client or from inside Connect; notify says whether
\* the connection-state callback is reached
DisconnectWith(c, notify) ==
  /\ th[c].pc = "disc_lock"
  /\ LockFree
  /\ IF isConnected
     THEN /\ linkUp' = FALSE
          /\ notifying' = {}
          /\ isConnected' = FALSE
          /\ hubInfo' = EmptyHubInfo
     ELSE UNCHANGED <<linkUp, notifying, isConnected, hubInfo>>
  /\ LET fired == IF notify /\ connectionStateCallback THEN <<FALSE>> ELSE <<>> IN
     IF th[c].op = "Connect"
     THEN /\ th' = [th EXCEPT ![c].pc = "conn_scan"]
          /\ obs' = Obs(<<>>, <<>>, fired, <<>>)
     ELSE /\ th' = [th EXCEPT ![c] = IdleTask]
          /\ obs' = Obs(<<>>, <<Return(c, th[c], "ok", FALSE, EmptyHubInfo)>>, fired, <<>>)
  /\ UNCHANGED <<characteristics, subscribedCharacteristics, connectionStateCallback,
                 deviceUpdateCallback, lockVars, registryVars, budgetVars, info, sub>>
  /\ UNCHANGED programVars

\* the callback moved out of the if hm.isConnected block
DisconnectAlwaysNotifying(c) == DisconnectWith(c, TRUE)
\* the callback is inside the if hm.isConnected block
Disconnect(c) == DisconnectWith(c, isConnected)

IsConnected(c) ==
  /\ th[c].pc = "isconn"
  /\ NoWriter
  /\ th' = [th EXCEPT ![c] = IdleTask]
  /\ obs' = Obs(<<>>, <<Return(c, th[c], "ok", isConnected, EmptyHubInfo)>>, <<>>, <<>>)
  /\ UNCHANGED <<sessionVars, lockVars, registryVars, budgetVars, info, sub>>
  /\ UNCHANGED programVars

GetHubInfo(c) ==
  /\ th[c].pc = "getinfo"
  /\ NoWriter
  /\ th' = [th EXCEPT ![c] = IdleTask]
  /\ obs' = Obs(<<>>, <<Return(c, th[c], "ok", FALSE, hubInfo)>>, <<>>, <<>>)
  /\ UNCHANGED <<sessionVars, lockVars, registryVars, budgetVars, info, sub>>
  /\ UNCHANGED programVars

\* --------------------------------------- what follows a read or write in a task
\* the write a task sends in its current phase
FrameOf(t) ==
  CASE t.op \in {"SetMotorPower", "SetMotorPowerAndWait"} ->
         [uuid |-> OUTPUT_COMMAND_UUID,
          data |-> IF t.phase = 1 THEN MotorFrame(t.port, t.power) ELSE StopMotorFrame(t.port)]
    [] t.op = "SetLEDColor" ->
         IF t.phase = 1 THEN [uuid |-> INPUT_COMMAND_UUID, data |-> LedModeFrame(t.port, 1)]
         ELSE IF t.phase = 2 THEN [uuid |-> INPUT_COMMAND_UUID, data |-> LedModeFrame(t.port, 0)]
         ELSE [uuid |-> OUTPUT_COMMAND_UUID, data |-> ColorFrame(LedColor)]
    [] t.op \in {"PlayTone", "PlayToneAndWait"} ->
         [uuid |-> OUTPUT_COMMAND_UUID,
          data |-> IF t.phase = 1 THEN ToneFrame(t.port, t.freq, t.dur)
                   ELSE StopToneFrame(t.port)]
    [] t.op = "StopTone" -> [uuid |-> OUTPUT_COMMAND_UUID, data |-> StopToneFrame(t.port)]
    [] t.op = "StopMotor" -> [uuid |-> OUTPUT_COMMAND_UUID, data |-> StopMotorFrame(t.port)]
    [] t.op = "Configure" ->
         [uuid |-> INPUT_COMMAND_UUID, data |-> ConfigureFrame(t.port, t.dtype)]
    [] t.op = "Detect" ->
         IF t.phase = 1
         THEN [uuid |-> INPUT_COMMAND_UUID, data |-> ConfigureFrame(t.port, t.dtype)]
         ELSE IF t.phase = 4
         THEN [uuid |-> INPUT_COMMAND_UUID, data |-> LedModeFrame(t.port, 0)]
         ELSE IF t.phase = 3
         THEN [uuid |-> OUTPUT_COMMAND_UUID, data |-> StopMotorFrame(t.port)]
         ELSE IF t.port = 6
         THEN [uuid |-> OUTPUT_COMMAND_UUID, data |-> ColorFrame(ProbeColor)]
         ELSE [uuid |-> OUTPUT_COMMAND_UUID, data |-> ProbeRunFrame(t.port)]
    [] OTHER -> [uuid |-> t.uuid, data |-> t.data]

\* the task set up for the write of the given phase
Sending(t, phase) ==
  LET u == [t EXCEPT !.phase = phase] IN
  [u EXCEPT !.pc = "w_check", !.uuid = FrameOf(u).uuid, !.data = FrameOf(u).data]

\* manualDeviceDetection: the device types tried on port 1 and 2, in order
probeOrder == <<DEVICE_TYPE_MOTOR, DEVICE_TYPE_TILT_SENSOR, DEVICE_TYPE_MOTION_SENSOR>>

\* the port given up at the first failed probe step
GiveUpPort(t) == [t EXCEPT !.pc = "det_scan"]
\* manualDeviceDetection: continue, the next device type is tried or the
\* port is given up
NextCandidate(t) ==
  IF t.dtype = probeOrder[1] THEN Sending([t EXCEPT !.dtype = probeOrder[2]], 1)
  ELSE IF t.dtype = probeOrder[2] THEN Sending([t EXCEPT !.dtype = probeOrder[3]], 1)
  ELSE [t EXCEPT !.pc = "det_scan"]

\* detectBuiltInLED after the write of phase 1 (RGB mode), 4 (index mode) or
\* 2 (colour) returned err
AfterLedProbe(t, err) ==
  IF t.phase = 1 THEN (IF err = "ok" THEN [t EXCEPT !.pc = "sleep", !.phase = 2]
                       ELSE Sending(t, 4))
  ELSE IF t.phase = 4 THEN [t EXCEPT !.pc = "sleep", !.phase = 2]
  ELSE IF err = "ok" THEN [t EXCEPT !.pc = "det_store"]
  ELSE [t EXCEPT !.pc = "det_scan"]

\* manualDeviceDetection after the write of phase 1 (setup), 2 (motor run) or
\* 3 (motor stop) returned err
AfterPortProbe(t, err) ==
  IF t.phase = 1
  THEN (IF err # "ok" THEN NextCandidate(t)
        ELSE IF t.dtype = DEVICE_TYPE_MOTOR THEN [t EXCEPT !.pc = "sleep", !.phase = 2]
        ELSE [t EXCEPT !.pc = "det_store"])
  ELSE IF t.phase = 2
  THEN (IF err # "ok" THEN NextCandidate(t) ELSE [t EXCEPT !.pc = "sleep", !.phase = 3])
  ELSE [t EXCEPT !.pc = "det_store"]

\* the task after the read or write of its current phase returned err;
\* pc = "idle" means the call returns
AfterWith(t, err, besteffort) ==
  CASE t.op \in {"SetMotorPowerAndWait", "PlayToneAndWait"} ->
         IF t.phase = 1 /\ err = "ok" /\ t.dur > 0
         THEN [t EXCEPT !.pc = "sleep", !.phase = 2]
         ELSE [t EXCEPT !.pc = "idle"]
    [] t.op = "SetLEDColor" ->
         IF t.phase = 1
         THEN (IF err = "ok" THEN Sending(t, 3)
               ELSE IF besteffort THEN Sending(t, 2)
               ELSE [t EXCEPT !.pc = "idle"])
         ELSE IF t.phase = 2 THEN Sending(t, 3)
         ELSE [t EXCEPT !.pc = "idle"]
    [] t.op = "StopMotor" -> [t EXCEPT !.pc = "chan_send"]
    [] t.op = "Configure" -> [t EXCEPT !.pc = "cfg_cb"]
    [] t.op = "Detect" -> IF t.port = 6 THEN AfterLedProbe(t, err) ELSE AfterPortProbe(t, err)
    [] OTHER -> [t EXCEPT !.pc = "idle"]

\* SetLEDColor giving up when the RGB-mode write fails
AfterAbortingOnSetup(t, err) == AfterWith(t, err, FALSE)
\* SetLEDColor goes on to the alternative mode and the colour write
After(t, err) == AfterWith(t, err, TRUE)

\* the error a returning call hands to its caller
Result(t, err) ==
  IF t.op \in {"SetMotorPowerAndWait", "PlayToneAndWait"} /\ t.phase = 2 THEN "ok" ELSE err

\* the goroutine SetMotorPower starts to stop the motor after the duration
StopMotorTask(port, d) ==
  [IdleTask EXCEPT !.pc = "sleep", !.op = "StopMotor", !.port = port, !.dur = d, !.phase = 1]

\* task c, now t, got err from its read or write; w is the adapter I/O of the step
Finish(c, t, err, w) ==
  LET n == After(t, err)
      spawn == t.op = "SetMotorPower" /\ err = "ok" /\ t.dur > 0
  IN /\ th' = [x \in Tasks |->
                 IF x = c THEN (IF n.pc = "idle" THEN IdleTask ELSE n)
                 ELSE IF spawn /\ x = StopNames[timedRuns] THEN StopMotorTask(t.port, t.dur)
                 ELSE th[x]]
     /\ obs' = Obs(w, IF n.pc = "idle"
                      THEN <<Return(c, t, Result(t, err), FALSE, EmptyHubInfo)>>
                      ELSE <<>>, <<>>, <<>>)

\* WriteCharacteristic / ReadCharacteristic up to the adapter call: RLock and
\* the connected, known-UUID and still-connected checks
CharacteristicLookup(c, connected, exists) ==
  /\ th[c].pc \in {"w_check", "r_check"}
  /\ NoWriter
  /\ IF ~connected
     THEN /\ Finish(c, th[c], "NotConnected", <<>>)
          /\ UNCHANGED rwReaders
     ELSE IF ~exists
     THEN /\ Finish(c, th[c], "UnknownCharacteristic", <<>>)
          /\ UNCHANGED rwReaders
     ELSE /\ th' = [th EXCEPT ![c].pc = IF @ = "w_check" THEN "w_io" ELSE "r_io"]
          /\ rwReaders' = rwReaders \cup {c}
          /\ obs' = Quiet
  /\ UNCHANGED <<sessionVars, rwWriter, registryVars, budgetVars, info, sub>>
  /\ UNCHANGED programVars

\* the lookup in hm.characteristics taken to succeed for any UUID
CharacteristicCheckAnyUUID(c, connected) == CharacteristicLookup(c, connected, TRUE)
\* char, exists := hm.characteristics[uuid]
CharacteristicCheckWith(c, connected) ==
  CharacteristicLookup(c, connected, th[c].uuid \in characteristics)

\* the !hm.isConnected checks left out
CharacteristicCheckUnguarded(c) == CharacteristicCheckWith(c, TRUE)
CharacteristicCheck(c) == CharacteristicCheckWith(c, isConnected)

\* the outcomes the adapter can give to a read, write or subscription
AdapterOutcomes == IF linkUp THEN {TRUE, FALSE} ELSE {FALSE}

\* WriteCharacteristic: WriteWithoutResponse, RUnlock
WriteIO(c) ==
  /\ th[c].pc = "w_io"
  /\ rwReaders' = rwReaders \ {c}
  /\ \E accepted \in AdapterOutcomes :
       LET w == IO(c, "write", th[c].uuid, th[c].data) IN
       Finish(c, [th[c] EXCEPT !.io = Append(@, w)],
              IF accepted THEN "ok" ELSE "WriteFailed", <<w>>)
  /\ UNCHANGED <<sessionVars, rwWriter, registryVars, budgetVars, info, sub>>
  /\ UNCHANGED programVars

\* ReadCharacteristic: char.Read, deferred RUnlock
ReadIO(c) ==
  /\ th[c].pc = "r_io"
  /\ rwReaders' = rwReaders \ {c}
  /\ \E accepted \in AdapterOutcomes :
       LET w == IO(c, "read", th[c].uuid, <<>>) IN
       Finish(c, [th[c] EXCEPT !.io = Append(@, w)],
              IF accepted THEN "ok" ELSE "ReadFailed", <<w>>)
  /\ UNCHANGED <<sessionVars, rwWriter, registryVars, budgetVars, info, sub>>
  /\ UNCHANGED programVars

\* time.Sleep ends; the task goes on to the write of its phase
Sleep(c) ==
  /\ th[c].pc = "sleep"
  /\ th' = [th EXCEPT ![c] = Sending(@, @.phase)]
  /\ obs' = Quiet
  /\ UNCHANGED <<sessionVars, lockVars, registryVars, budgetVars, info, sub>>
  /\ UNCHANGED programVars

\* ------------------------------------------------- goroutines started by Connect
InfoUUID(stage) ==
  CASE stage = "name" -> DEVICE_NAME_UUID
    [] stage = "fw" -> FIRMWARE_REVISION_UUID
    [] stage = "battery" -> BATTERY_LEVEL_UUID

InfoNext(stage) ==
  CASE stage = "name" -> "fw"
    [] stage = "fw" -> "battery"
    [] stage = "battery" -> "done"

\* readAllDeviceInfo: one readCharacteristic, of the device name, of a
\* device-information string (the firmware revision stands for the four the
\* loop reads) or of the battery level. The name and the battery level are
\* stored into hm.hubInfo at once, without the lock; the string goes through
\* updateHubInfo
InfoRead(g) ==
  /\ info[g] \in {"name", "fw", "battery"}
  /\ IF InfoUUID(info[g]) \notin characteristics
     THEN /\ info' = [info EXCEPT ![g] = InfoNext(@)]
          /\ obs' = Quiet
          /\ UNCHANGED hubInfo
     ELSE \E accepted \in AdapterOutcomes :
            /\ info' = [info EXCEPT ![g] = IF accepted /\ @ = "fw" THEN "fw_got"
                                           ELSE InfoNext(@)]
            /\ hubInfo' = IF accepted /\ info[g] = "name"
                          THEN [hubInfo EXCEPT !.Name = GattName]
                          ELSE IF accepted /\ info[g] = "battery"
                          THEN [hubInfo EXCEPT !.Battery = BatteryReading]
                          ELSE hubInfo
            /\ obs' = Obs(<<IO("info", "read", InfoUUID(info[g]), <<>>)>>, <<>>, <<>>, <<>>)
  /\ UNCHANGED <<isConnected, characteristics, subscribedCharacteristics,
                 connectionStateCallback, deviceUpdateCallback, linkUp, notifying,
                 lockVars, registryVars, budgetVars, th, sub>>
  /\ UNCHANGED programVars

\* updateHubInfo: Lock, store the string into hm.hubInfo, Unlock
UpdateHubInfo(g) ==
  /\ info[g] = "fw_got"
  /\ LockFree
  /\ hubInfo' = [hubInfo EXCEPT !.FirmwareVersion = FirmwareString]
  /\ info' = [info EXCEPT ![g] = "battery"]
  /\ obs' = Quiet
  /\ UNCHANGED <<isConnected, characteristics, subscribedCharacteristics,
                 connectionStateCallback, deviceUpdateCallback, linkUp, notifying,
                 lockVars, registryVars, budgetVars, th, sub>>
  /\ UNCHANGED programVars

\* subscribeToImportantNotifications: EnableNotifications on the battery,
\* port-info and firmware characteristics found in the table, each of which
\* may fail on its own
Subscribe(g) ==
  /\ sub[g] = "start"
  /\ \E ok \in SUBSET (NotifyUUIDs \cap characteristics) :
       /\ ok # {} => linkUp
       /\ subscribedCharacteristics' = subscribedCharacteristics \cup ok
       /\ notifying' = notifying \cup ok
  /\ sub' = [sub EXCEPT ![g] = "done"]
  /\ obs' = Quiet
  /\ UNCHANGED <<isConnected, characteristics, hubInfo, connectionStateCallback,
                 deviceUpdateCallback, linkUp, lockVars, registryVars, budgetVars,
                 th, info>>
  /\ UNCHANGED programVars

\* the battery notification handler
BatteryNotification ==
  /\ linkUp
  /\ BATTERY_LEVEL_UUID \in notifying
  /\ hubInfo' = [hubInfo EXCEPT !.Battery = BatteryReading]
  /\ obs' = Quiet
  /\ UNCHANGED <<isConnected, characteristics, subscribedCharacteristics,
                 connectionStateCallback, deviceUpdateCallback, linkUp, notifying,
                 lockVars, registryVars, budgetVars, th, info, sub>>
  /\ UNCHANGED programVars

\* the firmware notification handler
FirmwareNotification ==
  /\ linkUp
  /\ FIRMWARE_CHAR_UUID \in notifying
  /\ hubInfo' = [hubInfo EXCEPT !.FirmwareVersion = FirmwareString]
  /\ obs' = Quiet
  /\ UNCHANGED <<isConnected, characteristics, subscribedCharacteristics,
                 connectionStateCallback, deviceUpdateCallback, linkUp, notifying,
                 lockVars, registryVars, budgetVars, th, info, sub>>
  /\ UNCHANGED programVars

\* ------------------------------------------------------- port notifications
\* every port id taken for an external port
isAnyPort(portID) == TRUE
isExternalPort(portID) == portID = 1 \/ portID = 2 \/ portID = 6

\* the seven device types mapDeviceType knows
KnownDeviceTypes ==
  {DEVICE_TYPE_MOTOR, DEVICE_TYPE_TILT_SENSOR, DEVICE_TYPE_MOTION_SENSOR,
   DEVICE_TYPE_RGB_LIGHT, DEVICE_TYPE_PIEZO_TONE, DEVICE_TYPE_VOLTAGE,
   DEVICE_TYPE_CURRENT}

\* every type byte passed through as it came
passDeviceType(deviceType) == deviceType
mapDeviceType(deviceType) ==
  IF deviceType \in KnownDeviceTypes THEN deviceType ELSE 0

\* the type byte read one offset too early
typeByteAtTwo(data) == data[3]
\* deviceType := data[3]
typeByte(data) == data[4]

\* every 2-byte frame taken for a disconnection
isAnyShortFrame(data) == TRUE
\* len(data) == 2 && data[1] == 0x00
isDetachFrame(data) == data[2] = 0

\* the record reset on disconnection, its type forgotten
ForgetDevice(device) == [device EXCEPT !.IsConnected = FALSE, !.DeviceType = 0]
\* device.IsConnected = false
MarkDisconnected(device) == [device EXCEPT !.IsConnected = FALSE]

NoEvent == [kind |-> "none", port |-> 0, dtype |-> 0]

\* handlePortNotification: what the frame asks the registry to do
PortEvent(data) ==
  IF Len(data) < 2 THEN NoEvent
  ELSE IF Len(data) = 2
  THEN IF isDetachFrame(data) /\ isExternalPort(data[1])
       THEN [kind |-> "disconnect", port |-> data[1], dtype |-> 0]
       ELSE NoEvent
  ELSE IF Len(data) >= 4
  THEN IF ~isExternalPort(data[1]) THEN NoEvent
       ELSE IF data[2] = 1
       THEN IF typeByte(data) = 0 \/ mapDeviceType(typeByte(data)) = 0 THEN NoEvent
            ELSE [kind |-> "connect", port |-> data[1],
                  dtype |-> mapDeviceType(typeByte(data))]
       ELSE IF data[2] = 0
       THEN [kind |-> "disconnect", port |-> data[1], dtype |-> 0]
       ELSE NoEvent
  ELSE NoEvent

\* the frames the hub sends on the port-info characteristic
NotificationFrames ==
  {<<1>>, <<1, 0>>, <<3, 0>>, <<2, 1>>, <<2, 1, 0>>,
   <<2, 1, 0, 23, 0, 0, 0>>, <<1, 1, 0, 1>>, <<6, 1, 0, 23>>, <<3, 1, 0, 1>>,
   <<1, 1, 0, 0>>, <<1, 1, 0, 153>>, <<1, 0, 0, 1>>, <<3, 0, 0, 1>>, <<1, 2, 0, 1>>}

\* the goroutine handleDeviceConnection starts to configure the device
ConfigureTask(port, dtype, obj) ==
  [IdleTask EXCEPT !.pc = "sleep", !.op = "Configure", !.port = port, !.dtype = dtype,
                   !.obj = obj, !.phase = 1]

DeviceView(port, id) ==
  IF id = 0 THEN [PortID |-> port, DeviceType |-> 0, IsConnected |-> FALSE]
  ELSE heap[id]

\* the device callback never called
NotFired(port, dev) == <<>>
\* if hm.deviceUpdateCallback != nil { hm.deviceUpdateCallback(portID, device) }
Fired(port, dev) == IF deviceUpdateCallback THEN <<dev>> ELSE <<>>

\* the detection tasks inside their store into hm.devices
MapWriters == {d \in DetTasks : th[d].pc \in {"det_write", "det_raced"}}

\* hm.devices[port] after a store of id made with no lock: the store; when it
\* ran into another goroutine's store into the map also the entry as it was
\* (a race on a Go map; the runtime may as well abort the program, which
\* leaves the behaviour where it is)
StoreOutcomes(port, id, raced) == IF raced THEN {id, hmDevices[port]} ELSE {id}

\* a port-info notification arrives: handlePortNotification with
\* handleDeviceConnection / handleDeviceDisconnection
PortNotificationOf(frames) ==
  /\ linkUp
  /\ PORT_INFO_UUID \in notifying
  /\ notifs < MaxNotifs
  /\ notifs' = notifs + 1
  /\ \E data \in frames :
       LET ev == PortEvent(data) IN
       CASE ev.kind = "connect" ->
              /\ heap' = Append(heap, [PortID |-> ev.port, DeviceType |-> ev.dtype,
                                       IsConnected |-> TRUE])
              /\ \E stored \in StoreOutcomes(ev.port, Len(heap) + 1, MapWriters # {}) :
                   hmDevices' = [hmDevices EXCEPT ![ev.port] = stored]
              /\ th' = [x \in Tasks |->
                          IF x = CfgNames[notifs + 1]
                          THEN ConfigureTask(ev.port, ev.dtype, Len(heap) + 1)
                          ELSE IF x \in MapWriters THEN [th[x] EXCEPT !.pc = "det_raced"]
                          ELSE th[x]]
              /\ obs' = NotifObs(data, <<>>)
         [] ev.kind = "disconnect" ->
              LET id == hmDevices[ev.port] IN
              /\ heap' = IF id = 0 THEN heap
                          ELSE [heap EXCEPT ![id] = MarkDisconnected(heap[id])]
              /\ obs' = NotifObs(data, Fired(ev.port,
                                   MarkDisconnected(DeviceView(ev.port, id))))
              /\ UNCHANGED <<hmDevices, th>>
         [] OTHER ->
              /\ obs' = NotifObs(data, <<>>)
              /\ UNCHANGED <<heap, hmDevices, th>>
  /\ UNCHANGED <<sessionVars, lockVars, dmDevices, connectCalls, timedRuns, info, sub>>
  /\ UNCHANGED programVars

PortNotification == PortNotificationOf(NotificationFrames)

\* a device attached to or detached from port 1 or 2
DeviceFrames == {<<1, 1, 0, 1>>, <<1, 0>>, <<2, 1, 0, 35>>}
DeviceNotification == PortNotificationOf(DeviceFrames)

\* the device on port 1 exchanged: a motor and a motion sensor attached, the
\* port detached
SwapFrames == {<<1, 1, 0, 1>>, <<1, 0>>, <<1, 1, 0, 35>>}
SwapNotification == PortNotificationOf(SwapFrames)

\* the configure goroutine, after configureDevice: the device-change callback
ConfigureCallback(c) ==
  /\ th[c].pc = "cfg_cb"
  /\ th' = [th EXCEPT ![c] = IdleTask]
  /\ obs' = Obs(<<>>, <<>>, <<>>, Fired(th[c].port, heap[th[c].obj]))
  /\ UNCHANGED <<sessionVars, lockVars, registryVars, budgetVars, info, sub>>
  /\ UNCHANGED programVars

\* ------------------------------------------------------- device detection
\* autoDetectDevicesV2: portsToCheck
portsToCheck == <<1, 2, 6>>

\* the ports of portsToCheck after the given one that hm.devices has no
\* entry for
Unregistered(after) ==
  SelectSeq(portsToCheck, LAMBDA p : p > after /\ hmDevices[p] = 0)

\* the detection goroutine: connectToHub's sleep and hubMgr.IsConnected(),
\* then the IsConnected() at the head of autoDetectDevicesV2
DetectorCheck(d) ==
  /\ th[d].pc \in {"det_wait", "det_enter"}
  /\ NoWriter
  /\ IF isConnected
     THEN /\ th' = [th EXCEPT ![d].pc = IF @ = "det_wait" THEN "det_enter" ELSE "det_scan"]
          /\ obs' = Quiet
     ELSE /\ th' = [th EXCEPT ![d] = IdleTask]
          /\ obs' = Obs(<<>>, <<Return(d, th[d], "NotConnected", FALSE, EmptyHubInfo)>>,
                        <<>>, <<>>)
  /\ UNCHANGED <<sessionVars, lockVars, registryVars, budgetVars, info, sub>>
  /\ UNCHANGED programVars

\* autoDetectDevicesV2: the loop goes on to the next port without an entry
\* in hm.devices and manualDeviceDetection starts on it, or the loop ends
DetectorScan(d) ==
  /\ th[d].pc = "det_scan"
  /\ LET todo == Unregistered(th[d].port) IN
     IF todo = <<>>
     THEN /\ th' = [th EXCEPT ![d] = IdleTask]
          /\ obs' = Obs(<<>>, <<Return(d, th[d], "ok", FALSE, EmptyHubInfo)>>, <<>>, <<>>)
     ELSE /\ th' = [th EXCEPT ![d] =
                      Sending([@ EXCEPT !.port = Head(todo),
                                        !.dtype = IF Head(todo) = 6
                                                  THEN DEVICE_TYPE_RGB_LIGHT
                                                  ELSE probeOrder[1],
                                        !.io = <<>>], 1)]
          /\ obs' = Quiet
  /\ UNCHANGED <<sessionVars, lockVars, registryVars, budgetVars, info, sub>>
  /\ UNCHANGED programVars

\* manualDeviceDetection / detectBuiltInLED: the store into hm.devices
\* begins; no lock is held
DetectorStore(d) ==
  /\ th[d].pc = "det_store"
  /\ th' = [th EXCEPT ![d].pc = "det_write"]
  /\ obs' = Quiet
  /\ UNCHANGED <<sessionVars, lockVars, registryVars, budgetVars, info, sub>>
  /\ UNCHANGED programVars

\* manualDeviceDetection / detectBuiltInLED: the device is registered and
\* the device callback is called
DetectorStored(d) ==
  /\ th[d].pc \in {"det_write", "det_raced"}
  /\ LET device == [PortID |-> th[d].port, DeviceType |-> th[d].dtype,
                    IsConnected |-> TRUE] IN
     /\ heap' = Append(heap, device)
     /\ \E stored \in StoreOutcomes(th[d].port, Len(heap) + 1, th[d].pc = "det_raced") :
          hmDevices' = [hmDevices EXCEPT ![th[d].port] = stored]
     /\ obs' = Obs(<<>>, <<>>, <<>>, Fired(th[d].port, device))
  /\ th' = [th EXCEPT ![d].pc = "det_scan"]
  /\ UNCHANGED <<sessionVars, lockVars, dmDevices, budgetVars, info, sub>>
  /\ UNCHANGED programVars

\* ----------------------------------------------------------- Device Manager
\* the entry of a Device Manager operation: hubMgr.IsConnected(), the lookup
\* of the port's device in dm.devices and hm.devices, the device checks
DmCheckWith(c, connected) ==
  /\ th[c].pc = "dm_check"
  /\ NoWriter
  /\ LET t == th[c]
         own == dmDevices[t.port]
         hub == hmDevices[t.port]
         syncing == /\ t.op \in {"SetMotorPower", "SetLEDColor", "PlayToneAndWait"}
                    /\ own = 0 /\ hub # 0
         id == IF own # 0 THEN own ELSE IF syncing THEN hub ELSE 0
         rejected ==
           CASE t.op = "SetLEDColor" ->
                  /\ t.port # 6
                  /\ \/ id = 0
                     \/ ~heap[id].IsConnected
                     \/ heap[id].DeviceType # DEVICE_TYPE_RGB_LIGHT
             [] t.op = "PlayTone" ->
                  \/ id = 0
                  \/ ~heap[id].IsConnected
                  \/ heap[id].DeviceType # DEVICE_TYPE_PIEZO_TONE
             [] OTHER -> FALSE
     IN IF ~connected
        THEN /\ th' = [th EXCEPT ![c] = IdleTask]
             /\ obs' = Obs(<<>>, <<Return(c, t, "NotConnected", FALSE, EmptyHubInfo)>>,
                           <<>>, <<>>)
             /\ UNCHANGED dmDevices
        ELSE /\ dmDevices' = IF syncing THEN [dmDevices EXCEPT ![t.port] = hub]
                             ELSE dmDevices
             /\ IF rejected
                THEN /\ th' = [th EXCEPT ![c] = IdleTask]
                     /\ obs' = Obs(<<>>, <<Return(c, t, "UnrecognizedDevice", FALSE,
                                                  EmptyHubInfo)>>, <<>>, <<>>)
                ELSE /\ th' = [th EXCEPT ![c] = Sending(t, 1)]
                     /\ obs' = Quiet
  /\ UNCHANGED <<sessionVars, lockVars, heap, hmDevices, budgetVars, info, sub>>
  /\ UNCHANGED programVars

\* the hubMgr.IsConnected() check left out
DmCheckUnguarded(c) == DmCheckWith(c, TRUE)
DmCheck(c) == DmCheckWith(c, isConnected)

\* ---------------------------------------------------------- Program Manager
\* executeProgram goroutines, and the task running the toolbar's Stop button
Executors == {"run1", "run2"}
Toolbar == "toolbar"
PmTasks == Executors \cup {Toolbar}

\* ensureAllMotorsStopped and stopAllSounds: for port := 1; port <= 6
LastSweptPort == 6

\* a block: what its OnExecute does and its NextBlockID; a block's ID is its
\* position in pm.program.Blocks, the start block is the first one
BlockKinds == {"action", "stop"}
MissingBlockID == 3
Programs ==
  {<<[kind |-> k1, NextBlockID |-> n1], [kind |-> "action", NextBlockID |-> n2]>> :
     k1 \in BlockKinds, n1 \in {0, 1, 2, MissingBlockID}, n2 \in {0, 1}}

PmIdle == [pc |-> "idle", cur |-> 0, executed |-> {}, port |-> 0]

ProgramAtRest(blocks) ==
  /\ currentState = "Stopped"
  /\ program = blocks
  /\ pm = [t \in PmTasks |-> PmIdle]

\* findBlockByID: 0 stands for nil
findBlockByID(id) == IF id \in DOMAIN program THEN id ELSE 0

\* RunProgram, called from the toolbar's Run button
RunProgram ==
  /\ NoWriter
  /\ IF currentState = "Running" \/ ~isConnected \/ Len(program) = 0
     THEN UNCHANGED <<currentState, pm>>
     ELSE \E e \in Executors :
            /\ pm[e].pc = "idle"
            /\ currentState' = "Running"
            /\ pm' = [pm EXCEPT ![e] = [PmIdle EXCEPT !.pc = "loop", !.cur = 1]]
  /\ obs' = Quiet
  /\ UNCHANGED <<sessionVars, lockVars, registryVars, budgetVars, th, info, sub, program>>

\* an executor that keeps no record of the blocks it has run
NeverExecuted(t) == FALSE

\* executedBlocks[currentBlock.ID]
AlreadyExecuted(t) == t.cur \in t.executed

\* executeProgram: the loop condition and the executedBlocks guard
EnterBlock(e) ==
  /\ pm[e].pc = "loop"
  /\ pm' = [pm EXCEPT ![e] =
              IF currentState # "Running" \/ pm[e].cur = 0 \/ AlreadyExecuted(pm[e])
              THEN [@ EXCEPT !.pc = "end"]
              ELSE [@ EXCEPT !.pc = "in_block", !.executed = @ \cup {pm[e].cur}]]
  /\ obs' = Quiet
  /\ UNCHANGED <<sessionVars, lockVars, registryVars, budgetVars, th, info, sub,
                 currentState, program>>

\* one turn of the loop of ensureAllMotorsStopped or stopAllSounds: IsConnected
\* and WriteCharacteristic each take connectionMutex.RLock; the frame goes out
\* when the session is connected and knows the output characteristic, and
\* the result of the write is ignored
SweepWrites(t, frame) ==
  IF isConnected /\ OUTPUT_COMMAND_UUID \in characteristics
  THEN <<IO(t, "write", OUTPUT_COMMAND_UUID, frame)>>
  ELSE <<>>

\* ensureAllMotorsStopped then stopAllSounds, from port 1 on
RECURSIVE StopSweeps(_, _)
StopSweeps(t, port) ==
  IF port > 2 * LastSweptPort THEN <<>>
  ELSE SweepWrites(t, IF port <= LastSweptPort THEN StopMotorFrame(port)
                      ELSE StopToneFrame(port - LastSweptPort))
       \o StopSweeps(t, port + 1)

\* StopProgram's body: only a running program is stopped and swept. The two
\* sweeps are taken with the assignment: they change nothing but the wire
Stopping(t, back) ==
  /\ NoWriter
  /\ pm' = [pm EXCEPT ![t].pc = back]
  /\ IF currentState = "Running"
     THEN /\ currentState' = "Stopped"
          /\ obs' = Obs(StopSweeps(t, 1), <<>>, <<>>, <<>>)
     ELSE /\ UNCHANGED currentState
          /\ obs' = Quiet

\* StopProgram, called from the toolbar's Stop button
StopProgram ==
  /\ Stopping(Toolbar, "idle")
  /\ UNCHANGED <<sessionVars, lockVars, registryVars, budgetVars, th, info, sub, program>>

\* currentBlock.OnExecute() returns: nil or an error for a device block, nil
\* for a Stop block after its call of StopProgram
BlockReturns(e) ==
  /\ pm[e].pc = "in_block"
  /\ IF program[pm[e].cur].kind = "stop"
     THEN Stopping(e, "next")
     ELSE /\ \E err \in {"ok", "failed"} :
               IF err = "ok"
               THEN /\ pm' = [pm EXCEPT ![e].pc = "next"]
                    /\ UNCHANGED currentState
               ELSE /\ pm' = [pm EXCEPT ![e].pc = "end"]
                    /\ currentState' = "Error"
          /\ obs' = Quiet
  /\ UNCHANGED <<sessionVars, lockVars, registryVars, budgetVars, th, info, sub, program>>

\* executeProgram: the search for the next block and the state check before
\* the 10 ms pause
NextBlock(e) ==
  /\ pm[e].pc = "next"
  /\ LET id == program[pm[e].cur].NextBlockID
         nextBlock == findBlockByID(id)
     IN IF id > 0 /\ nextBlock = 0
        THEN /\ currentState' = "Error"
             /\ pm' = [pm EXCEPT ![e].pc = "end"]
        ELSE /\ UNCHANGED currentState
             /\ pm' = [pm EXCEPT ![e] =
                         IF id = 0 THEN [@ EXCEPT !.pc = "end"]
                         ELSE IF currentState # "Running"
                         THEN [@ EXCEPT !.pc = "end", !.cur = nextBlock]
                         ELSE [@ EXCEPT !.pc = "loop", !.cur = nextBlock]]
  /\ obs' = Quiet
  /\ UNCHANGED <<sessionVars, lockVars, registryVars, budgetVars, th, info, sub, program>>

\* executeProgram: the switch after the loop, then ensureAllMotorsStopped
EndOfRun(e) ==
  /\ pm[e].pc = "end"
  /\ currentState' = IF currentState = "Running" THEN "Stopped" ELSE currentState
  /\ pm' = [pm EXCEPT ![e].pc = "sweep", ![e].port = 1]
  /\ obs' = Quiet
  /\ UNCHANGED <<sessionVars, lockVars, registryVars, budgetVars, th, info, sub, program>>

\* the executor's ensureAllMotorsStopped: one port, then the next or the
\* end of the goroutine
SweepPort(e) ==
  /\ pm[e].pc = "sweep"
  /\ NoWriter
  /\ pm' = [pm EXCEPT ![e] = IF @.port < LastSweptPort THEN [@ EXCEPT !.port = @ + 1]
                             ELSE PmIdle]
  /\ obs' = Obs(SweepWrites(e, StopMotorFrame(pm[e].port)), <<>>, <<>>, <<>>)
  /\ UNCHANGED <<sessionVars, lockVars, registryVars, budgetVars, th, info, sub,
                 currentState, program>>

\* ------------------------------------------------------------------- system
Init ==
  /\ isConnected = FALSE
  /\ characteristics = {}
  /\ subscribedCharacteristics = {}
  /\ hubInfo = EmptyHubInfo
  /\ connectionStateCallback = TRUE
  /\ deviceUpdateCallback = TRUE
  /\ rwWriter = "none"
  /\ rwReaders = {}
  /\ linkUp = FALSE
  /\ notifying = {}
  /\ heap = <<>>
  /\ hmDevices = [p \in Ports |-> 0]
  /\ dmDevices = [p \in Ports |-> 0]
  /\ connectCalls = 0
  /\ notifs = 0
  /\ timedRuns = 0
  /\ th = [c \in Tasks |-> IdleTask]
  /\ info = [g \in 1..MaxConnects |-> "idle"]
  /\ sub = [g \in 1..MaxConnects |-> "idle"]
  /\ obs = Quiet
  /\ ProgramAtRest(<<>>)

\* registries the notification stream can have left behind: nothing, a
\* motor, a detached motor or a buzzer on port 1, a light on port 2 or 6
KnownRegistries ==
  {<<>>} \cup
  {<<[PortID |-> 1, DeviceType |-> DEVICE_TYPE_MOTOR, IsConnected |-> b]>> : b \in BOOLEAN}
  \cup {<<[PortID |-> 1, DeviceType |-> DEVICE_TYPE_PIEZO_TONE, IsConnected |-> TRUE]>>}
  \cup {<<[PortID |-> p, DeviceType |-> DEVICE_TYPE_RGB_LIGHT, IsConnected |-> TRUE]>> :
          p \in {2, 6}}

\* SyncDevices: every record of hm.devices is copied into dm.devices
SyncDevices ==
  /\ dmDevices' = [p \in Ports |-> IF hmDevices[p] # 0 THEN hmDevices[p] ELSE dmDevices[p]]
  /\ obs' = Quiet
  /\ UNCHANGED <<sessionVars, lockVars, heap, hmDevices, th, budgetVars, info, sub>>
  /\ UNCHANGED programVars

\* a disconnected session whose registry already holds a device
InitWithDevices ==
  /\ isConnected = FALSE
  /\ characteristics = {}
  /\ subscribedCharacteristics = {}
  /\ hubInfo = EmptyHubInfo
  /\ connectionStateCallback = TRUE
  /\ deviceUpdateCallback = TRUE
  /\ rwWriter = "none"
  /\ rwReaders = {}
  /\ linkUp = FALSE
  /\ notifying = {}
  /\ heap \in KnownRegistries
  /\ hmDevices = [p \in Ports |-> IF heap # <<>> /\ heap[1].PortID = p THEN 1 ELSE 0]
  /\ dmDevices = [p \in Ports |-> 0]
  /\ connectCalls = 0
  /\ notifs = 0
  /\ timedRuns = 0
  /\ th = [c \in Tasks |-> IdleTask]
  /\ info = [g \in 1..MaxConnects |-> "idle"]
  /\ sub = [g \in 1..MaxConnects |-> "idle"]
  /\ obs = Quiet
  /\ ProgramAtRest(<<>>)

\* a session whose earlier Connect attempts all failed in the scan
InitAfterFailedScans ==
  /\ isConnected = FALSE
  /\ characteristics = {}
  /\ subscribedCharacteristics = {}
  /\ hubInfo = EmptyHubInfo
  /\ connectionStateCallback = TRUE
  /\ deviceUpdateCallback = TRUE
  /\ rwWriter = "none"
  /\ rwReaders = {}
  /\ linkUp = FALSE
  /\ notifying = {}
  /\ heap = <<>>
  /\ hmDevices = [p \in Ports |-> 0]
  /\ dmDevices = [p \in Ports |-> 0]
  /\ connectCalls = MaxConnects - 1
  /\ notifs = 0
  /\ timedRuns = 0
  /\ th = [c \in Tasks |-> IdleTask]
  /\ info = [g \in 1..MaxConnects |-> "idle"]
  /\ sub = [g \in 1..MaxConnects |-> "idle"]
  /\ obs = Quiet
  /\ ProgramAtRest(<<>>)

\* a session just connected: the earlier Connect attempts failed in the
\* scan, the last one succeeded, discovery found the hub's characteristics
\* and the subscription goroutine enabled all three notifications
HubConnected ==
  /\ isConnected = TRUE
  /\ characteristics = HubUUIDs
  /\ subscribedCharacteristics = NotifyUUIDs
  /\ hubInfo = [EmptyHubInfo EXCEPT !.Name = AdvertisedName, !.Address = HubAddress]
  /\ connectionStateCallback = TRUE
  /\ deviceUpdateCallback = TRUE
  /\ rwWriter = "none"
  /\ rwReaders = {}
  /\ linkUp = TRUE
  /\ notifying = NotifyUUIDs
  /\ heap = <<>>
  /\ hmDevices = [p \in Ports |-> 0]
  /\ dmDevices = [p \in Ports |-> 0]
  /\ connectCalls = MaxConnects
  /\ notifs = 0
  /\ timedRuns = 0
  /\ th = [c \in Tasks |-> IF c = DetNames[MaxConnects] THEN DetectorTask ELSE IdleTask]
  /\ info = [g \in 1..MaxConnects |-> IF g = MaxConnects THEN "name" ELSE "idle"]
  /\ sub = [g \in 1..MaxConnects |-> IF g = MaxConnects THEN "done" ELSE "idle"]
  /\ obs = Quiet

InitConnected == HubConnected /\ ProgramAtRest(<<>>)

\* the hub connected and a program of two blocks loaded
InitProgram == HubConnected /\ \E blocks \in Programs : ProgramAtRest(blocks)

\* a connected session, detection over, with a motor or a buzzer announced
\* on port 1
InitWithActuator ==
  /\ isConnected = TRUE
  /\ characteristics = HubUUIDs
  /\ subscribedCharacteristics = NotifyUUIDs
  /\ hubInfo = [EmptyHubInfo EXCEPT !.Name = AdvertisedName, !.Address = HubAddress]
  /\ connectionStateCallback = TRUE
  /\ deviceUpdateCallback = TRUE
  /\ rwWriter = "none"
  /\ rwReaders = {}
  /\ linkUp = TRUE
  /\ notifying = NotifyUUIDs
  /\ \E dtype \in {DEVICE_TYPE_MOTOR, DEVICE_TYPE_PIEZO_TONE} :
       heap = <<[PortID |-> 1, DeviceType |-> dtype, IsConnected |-> TRUE]>>
  /\ hmDevices = [p \in Ports |-> IF p = 1 THEN 1 ELSE 0]
  /\ dmDevices = [p \in Ports |-> 0]
  /\ connectCalls = MaxConnects
  /\ notifs = 0
  /\ timedRuns = 0
  /\ th = [c \in Tasks |-> IdleTask]
  /\ info = [g \in 1..MaxConnects |-> IF g = MaxConnects THEN "name" ELSE "idle"]
  /\ sub = [g \in 1..MaxConnects |-> IF g = MaxConnects THEN "done" ELSE "idle"]
  /\ obs = Quiet
  /\ ProgramAtRest(<<>>)

\* the steps of Connect and Disconnect
LinkSteps ==
  \/ \E c \in Clients : ConnectEnter(c)
  \/ \E c \in Clients : ConnectScan(c)
  \/ \E c \in Clients : ConnectLink(c)
  \/ \E c \in Clients : Disconnect(c)

\* the session API racing raw reads and writes
SessionNext ==
  \/ SessionCall
  \/ RawCall
  \/ LinkSteps
  \/ \E c \in Clients : IsConnected(c)
  \/ \E c \in Clients : GetHubInfo(c)
  \/ \E c \in Tasks : CharacteristicCheck(c)
  \/ \E c \in Tasks : WriteIO(c)
  \/ \E c \in Tasks : ReadIO(c)

\* the session API racing the goroutines Connect starts and the battery and
\* firmware notifications
MetadataNext ==
  \/ SessionCall
  \/ LinkSteps
  \/ \E c \in Clients : IsConnected(c)
  \/ \E c \in Clients : GetHubInfo(c)
  \/ \E g \in 1..MaxConnects : InfoRead(g)
  \/ \E g \in 1..MaxConnects : UpdateHubInfo(g)
  \/ \E g \in 1..MaxConnects : Subscribe(g)
  \/ BatteryNotification
  \/ FirmwareNotification

\* the Device Manager racing Connect and Disconnect
CommandNext ==
  \/ LinkCall
  \/ DeviceCall
  \/ LinkSteps
  \/ \E c \in Clients : DmCheck(c)
  \/ \E c \in Tasks : CharacteristicCheck(c)
  \/ \E c \in Tasks : WriteIO(c)
  \/ \E c \in Tasks : Sleep(c)

\* the port-info notification stream feeding the registry
PortNext ==
  \/ LinkCall
  \/ LinkSteps
  \/ \E c \in Tasks : CharacteristicCheck(c)
  \/ \E c \in Tasks : WriteIO(c)
  \/ \E c \in Tasks : Sleep(c)
  \/ \E c \in CfgTasks : ConfigureCallback(c)
  \/ \E g \in 1..MaxConnects : Subscribe(g)
  \/ PortNotification

\* the detection goroutine racing Connect, Disconnect and the subscription
\* goroutine
DetectorNext ==
  \/ LinkCall
  \/ LinkSteps
  \/ \E g \in 1..MaxConnects : Subscribe(g)
  \/ \E d \in DetTasks : DetectorCheck(d)
  \/ \E d \in DetTasks : DetectorScan(d)
  \/ \E d \in DetTasks : DetectorStore(d)
  \/ \E d \in DetTasks : DetectorStored(d)
  \/ \E c \in Tasks : CharacteristicCheck(c)
  \/ \E c \in Tasks : WriteIO(c)
  \/ \E c \in Tasks : Sleep(c)

\* the notification handler and the detection goroutine both storing into
\* the registry, up to the end of the configure goroutines' first sleep
RegistryNext ==
  \/ DeviceNotification
  \/ \E d \in DetTasks : DetectorCheck(d)
  \/ \E d \in DetTasks : DetectorScan(d)
  \/ \E d \in DetTasks : DetectorStore(d)
  \/ \E d \in DetTasks : DetectorStored(d)
  \/ \E d \in DetTasks : CharacteristicCheck(d)
  \/ \E d \in DetTasks : WriteIO(d)
  \/ \E d \in DetTasks : Sleep(d)

\* the motor and tone commands encoding their arguments on a connected
\* session
EncoderNext ==
  \/ EncoderCall
  \/ \E c \in Clients : DmCheck(c)
  \/ \E c \in Clients : CharacteristicCheck(c)
  \/ \E c \in Clients : WriteIO(c)
  \/ \E c \in Clients : Sleep(c)

\* the notification handler and the configure goroutines it starts calling
\* the device-change callback
ObserverNext ==
  \/ SwapNotification
  \/ \E c \in CfgTasks : Sleep(c)
  \/ \E c \in CfgTasks : CharacteristicCheck(c)
  \/ \E c \in CfgTasks : WriteIO(c)
  \/ \E c \in CfgTasks : ConfigureCallback(c)

\* the Device Manager's copy of the registry while notifications replace
\* the session's records
MirrorNext ==
  \/ SwapNotification
  \/ DeviceCall
  \/ SyncDevices
  \/ \E c \in Clients : DmCheck(c)
  \/ \E c \in Clients : CharacteristicCheck(c)
  \/ \E c \in Clients : WriteIO(c)
  \/ \E c \in Clients : Sleep(c)

\* the start of the detection goroutine racing repeated Connect and
\* Disconnect calls
ScheduleNext ==
  \/ LinkCall
  \/ LinkSteps
  \/ \E g \in 1..MaxConnects : Subscribe(g)
  \/ \E d \in DetTasks : DetectorCheck(d)

\* one step of an executeProgram goroutine
ProgramStep(e) ==
  \/ EnterBlock(e)
  \/ BlockReturns(e)
  \/ NextBlock(e)
  \/ EndOfRun(e)
  \/ SweepPort(e)

\* the toolbar's Run and Stop buttons, the running programs and a Disconnect
ProgramNext ==
  \/ RunProgram
  \/ StopProgram
  \/ LinkCall
  \/ Disconnect("ui")
  \/ \E e \in Executors : ProgramStep(e)

Next ==
  \/ SessionNext \/ MetadataNext \/ CommandNext \/ PortNext
  \/ DetectorNext \/ RegistryNext \/ ScheduleNext \/ EncoderNext \/ ObserverNext
  \/ MirrorNext \/ ProgramNext

Spec == Init /\ [][Next]_vars
SessionSpec == Init /\ [][SessionNext]_vars
MetadataSpec == Init /\ [][MetadataNext]_vars
CommandSpec == InitWithDevices /\ [][CommandNext]_vars
PortSpec == InitAfterFailedScans /\ [][PortNext]_vars
DetectorSpec == InitAfterFailedScans /\ [][DetectorNext]_vars
RegistrySpec == InitConnected /\ [][RegistryNext]_vars
ScheduleSpec == Init /\ [][ScheduleNext]_vars
EncoderSpec == InitWithActuator /\ [][EncoderNext]_vars
ObserverSpec == InitConnected /\ [][ObserverNext]_vars
MirrorSpec == InitConnected /\ [][MirrorNext]_vars
ProgramSpec == InitProgram /\ [][ProgramNext]_vars
\* the Go scheduler runs every goroutine that can take a step
ProgramLiveSpec == ProgramSpec /\ \A e \in Executors : WF_vars(ProgramStep(e))

\* ------------------------------------------------------------------ properties
\* the call that returned in the last step, if any
Returned(ops) == Len(obs.ret) = 1 /\ obs.ret[1].op \in ops
RawOps == {"Write", "Read"}
SessionOps == {"Connect", "Disconnect", "IsConnected", "GetHubInfo"}

\* C1: a WriteCharacteristic or ReadCharacteristic call that finds the session
\* not connected returns the not-connected error, whatever the UUID, and the
\* call issues no adapter read or write
RawCallNeedsConnection ==
  [][\A c \in Clients :
       (/\ th[c].op \in RawOps
        /\ th[c].pc \in {"w_check", "r_check"}
        /\ ~isConnected
        /\ th'[c] # th[c])
       => /\ obs'.wire = <<>>
          /\ Len(obs'.ret) = 1
          /\ obs'.ret[1].who = c
          /\ obs'.ret[1].res = "NotConnected"
          /\ obs'.ret[1].io = <<>>]_vars

\* C1 happens: after a Disconnect, a raw call on a characteristic that is still
\* in the table has returned the not-connected error
RawCallRefusedAfterDisconnect ==
  /\ ~isConnected
  /\ Returned(RawOps)
  /\ obs.ret[1].res = "NotConnected"
  /\ obs.ret[1].uuid \in characteristics

\* C2: every Device Manager operation called while the session is not
\* connected returns the not-connected error and sends no write
DeviceCallNeedsConnection ==
  [][\A c \in Clients :
       (/\ th[c].op \in DmOps
        /\ th[c].pc = "dm_check"
        /\ ~isConnected
        /\ th'[c] # th[c])
       => /\ obs'.wire = <<>>
          /\ Len(obs'.ret) = 1
          /\ obs'.ret[1].who = c
          /\ obs'.ret[1].res = "NotConnected"
          /\ obs'.ret[1].io = <<>>
          /\ UNCHANGED registryVars]_vars

\* C2 happens: an operation on a port whose device is registered has returned
\* the not-connected error
DeviceCallRefused ==
  /\ ~isConnected
  /\ Returned(DmOps)
  /\ obs.ret[1].res = "NotConnected"
  /\ hmDevices[obs.ret[1].port] # 0

\* the write of SetMotorPower(1, 50, 0) with the given speed byte
HalfPowerWrite(speedByte) ==
  IO("prog", "write", OUTPUT_COMMAND_UUID, <<1, 1, 1, speedByte>>)

\* SetMotorPower(1, 50, 0) returned in the last step
HalfPowerReturned ==
  /\ Returned({"SetMotorPower"})
  /\ obs.ret[1].port = 1 /\ obs.ret[1].power = 50 /\ obs.ret[1].dur = 0

\* what a returned SetMotorPower(1, 50, 0) has sent, given the speed byte: one
\* write when the write was reached, none when the session was closed or had
\* no output-command characteristic by then
HalfPowerSends(speedByte) ==
  HalfPowerReturned
  => /\ obs.ret[1].res \in {"ok", "WriteFailed"} =>
          obs.ret[1].io = <<HalfPowerWrite(speedByte)>>
     /\ obs.ret[1].res \in {"NotConnected", "UnknownCharacteristic"} => obs.ret[1].io = <<>>
     /\ obs.ret[1].res \in {"ok", "WriteFailed", "NotConnected", "UnknownCharacteristic"}

StepOf(c) ==
  \/ ConnectEnter(c) \/ ConnectScan(c) \/ ConnectLink(c) \/ Disconnect(c)
  \/ IsConnected(c) \/ GetHubInfo(c)
  \/ CharacteristicCheck(c) \/ WriteIO(c) \/ ReadIO(c)

\* C4: a WriteCharacteristic racing a Disconnect either writes while the
\* session is connected or returns the not-connected error; no write reaches
\* the adapter once Disconnect has marked the session disconnected; and neither
\* call is stuck: the write can always step, Disconnect waits at most for it
WriteRacingDisconnect ==
  /\ \A i \in 1..Len(obs.wire) : obs.wire[i].kind = "write" => isConnected
  /\ Returned({"Write"}) =>
       \/ obs.ret[1].res \in {"NotConnected", "UnknownCharacteristic"} /\ obs.ret[1].io = <<>>
       \/ obs.ret[1].res \in {"ok", "WriteFailed"} /\ Len(obs.ret[1].io) = 1 /\ isConnected
  /\ (th["ui"].op = "Disconnect" /\ th["prog"].op = "Write") =>
       /\ ENABLED StepOf("prog")
       /\ ENABLED StepOf("ui") \/ th["prog"].pc = "w_io"

\* C4 happens: Disconnect waits for the lock while a write holds the read lock
DisconnectWaitsForWrite ==
  /\ th["ui"].op = "Disconnect"
  /\ th["ui"].pc = "disc_lock"
  /\ th["prog"].op = "Write"
  /\ th["prog"].pc = "w_io"
  /\ isConnected

\* C5: every Hub Session call returns: a call in progress can take its next
\* step, or waits for a lock held by another task that can take its own
HubSessionCallsReturn ==
  \A c \in Clients :
    (th[c].op \in SessionOps /\ th[c].pc # "idle")
    => \/ ENABLED StepOf(c)
       \/ \E d \in (rwReaders \cup {rwWriter}) \cap (Clients \ {c}) : ENABLED StepOf(d)

\* C6: Disconnect on a connected session marks it disconnected and calls the
\* connection-state callback exactly once, with false; on a session already
\* disconnected it changes nothing and calls no callback
DisconnectNotifiesOnce ==
  [][\A c \in Clients :
       (th[c].op = "Disconnect" /\ th[c].pc = "disc_lock" /\ th'[c] # th[c])
       => /\ Len(obs'.ret) = 1 /\ obs'.ret[1].op = "Disconnect" /\ obs'.ret[1].res = "ok"
          /\ IF isConnected
             THEN ~isConnected' /\ obs'.connCb = <<FALSE>>
             ELSE obs'.connCb = <<>> /\ UNCHANGED <<sessionVars, registryVars>>]_vars

\* C6 happens: a session that was connected and then disconnected had
\* Disconnect called on it again
DisconnectedTwice ==
  /\ Returned({"Disconnect"})
  /\ obs.connCb = <<>>
  /\ ~isConnected
  /\ characteristics # {}

\* C7: a Connect from the disconnected state whose scan fails or does not find
\* the hub, or whose adapter connect fails, returns an error, leaves the
\* session disconnected and the characteristic table as it was, and calls no
\* callback
FailedConnectChangesNothing ==
  [][\A c \in Clients :
       (/\ th[c].op = "Connect"
        /\ th[c].pc \in {"conn_scan", "conn_link"}
        /\ th'[c].pc = "idle"
        /\ obs'.ret[1].res # "ok")
       => /\ obs'.ret[1].res \in {"ScanFailed", "NotFound", "ConnectFailed"}
          /\ ~isConnected'
          /\ UNCHANGED <<isConnected, characteristics, subscribedCharacteristics, hubInfo>>
          /\ obs'.connCb = <<>>]_vars

\* C7 happens: after an earlier session filled the table, the adapter refused
\* the connection
ConnectRefused ==
  /\ Returned({"Connect"})
  /\ obs.ret[1].res = "ConnectFailed"
  /\ ~isConnected
  /\ characteristics # {}

\* C8: once Disconnect has returned, the characteristic table and the set of
\* active subscriptions are empty
DisconnectClearsTables ==
  Returned({"Disconnect"}) => characteristics = {} /\ subscribedCharacteristics = {}

\* C9: from Disconnect to the next Connect GetHubInfo returns the empty
\* HubInfo, whatever reads were in progress
DisconnectedHubInfoIsEmpty ==
  (Returned({"GetHubInfo"}) /\ ~isConnected) => obs.ret[1].val = EmptyHubInfo

\* C10: a port-info notification whose port is none of 1, 2 and 6 leaves the
\* registry as it was, starts no configure task and calls no device callback
InternalPortIgnored ==
  [][(/\ Len(obs'.notif) = 1
      /\ Len(obs'.notif[1]) >= 1
      /\ ~(obs'.notif[1][1] \in {1, 2, 6}))
     => /\ UNCHANGED <<registryVars, th>>
        /\ obs'.devCb = <<>>]_vars

\* C10 happens: the hub announced a motor on port 3 while a device was
\* registered
InternalPortAnnounced ==
  /\ obs.notif = << <<3, 1, 0, 1>> >>
  /\ \E p \in Ports : hmDevices[p] # 0

\* the frame the last step handled, if it handled one
Handled(frame) == obs.notif = <<frame>>
HandledAny == Len(obs.notif) = 1
ReportsAttach(f) ==
  /\ Len(f) >= 4
  /\ f[1] \in {1, 2, 6}
  /\ f[2] = 1
ReportsDetach(f) ==
  /\ f[1] \in {1, 2, 6}
  /\ \/ Len(f) = 2 /\ f[2] = 0
     \/ Len(f) >= 4 /\ f[2] = 0

\* C11: every record of the registry has one of the seven known device
\* types, and a connection notification whose type byte is 0x00 or none of
\* the seven codes neither creates nor changes a record
RegistryTypesKnown ==
  /\ [](\A i \in 1..Len(heap) : heap[i].DeviceType \in KnownDeviceTypes)
  /\ [][(/\ Len(obs'.notif) = 1
         /\ ReportsAttach(obs'.notif[1])
         /\ ~(obs'.notif[1][4] \in KnownDeviceTypes))
        => UNCHANGED <<registryVars, th>>]_vars

\* C11 happens: with a motor registered on port 1 the hub announced type
\* 0x99 on that port
UnknownTypeAnnounced ==
  /\ Handled(<<1, 1, 0, 153>>)
  /\ hmDevices[1] # 0
  /\ heap[hmDevices[1]].DeviceType = DEVICE_TYPE_MOTOR

\* C12: a handled frame of length >= 4 with port 1, 2 or 6, event byte 0x01
\* and a known type byte at offset 3 leaves that port registered with that
\* type and connected; so {2,0x01,0x00,0x17,0,0,0} registers an RGB light on
\* port 2
AttachRegistersDevice ==
  (/\ HandledAny
   /\ ReportsAttach(obs.notif[1])
   /\ obs.notif[1][4] \in KnownDeviceTypes)
  => /\ hmDevices[obs.notif[1][1]] # 0
     /\ heap[hmDevices[obs.notif[1][1]]] =
          [PortID |-> obs.notif[1][1], DeviceType |-> obs.notif[1][4],
           IsConnected |-> TRUE]

\* C12 happens: the seven-byte frame was handled and port 2 holds the light
LightAnnouncedOnPortTwo ==
  /\ Handled(<<2, 1, 0, 23, 0, 0, 0>>)
  /\ hmDevices[2] # 0
  /\ heap[hmDevices[2]].DeviceType = DEVICE_TYPE_RGB_LIGHT
  /\ heap[hmDevices[2]].IsConnected

\* C13: once the 2-byte frame {1,0x00} is handled, the registry holds a
\* record for port 1 with connected = false, whether or not a device was
\* registered there before
DetachLeavesRecord ==
  Handled(<<1, 0>>) => hmDevices[1] # 0 /\ ~heap[hmDevices[1]].IsConnected

\* C14: a frame shorter than 2 bytes, a frame of 3 bytes, a 2-byte frame
\* whose second byte is not 0x00 and a frame of 4 or more bytes whose event
\* byte is neither 0x00 nor 0x01 leave the registry as it was, start no
\* goroutine and call no device callback
IsMalformed(f) ==
  \/ Len(f) < 2
  \/ Len(f) = 3
  \/ Len(f) = 2 /\ f[2] # 0
  \/ Len(f) >= 4 /\ ~(f[2] \in {0, 1})
MalformedFrameDropped ==
  [][(Len(obs'.notif) = 1 /\ IsMalformed(obs'.notif[1]))
     => /\ UNCHANGED <<registryVars, th>>
        /\ obs'.devCb = <<>>]_vars

\* C14 happens: with a connected device registered on port 2 the hub sent
\* the 2-byte frame {2,0x01}
MalformedFrameSent ==
  /\ Handled(<<2, 1>>)
  /\ hmDevices[2] # 0
  /\ heap[hmDevices[2]].IsConnected

\* C15: a port that has a record keeps having one, a stored record keeps its
\* port and its device type, and a disconnection notification for the port
\* sets connected = false on that very record
RecordNeverRemoved ==
  [][/\ \A p \in Ports : hmDevices[p] # 0 => hmDevices'[p] # 0
     /\ Len(heap') >= Len(heap)
     /\ \A i \in 1..Len(heap) :
          /\ heap'[i].PortID = heap[i].PortID
          /\ heap'[i].DeviceType = heap[i].DeviceType
     /\ (/\ Len(obs'.notif) = 1
         /\ Len(obs'.notif[1]) >= 2
         /\ ReportsDetach(obs'.notif[1])
         /\ hmDevices[obs'.notif[1][1]] # 0)
        => /\ hmDevices'[obs'.notif[1][1]] = hmDevices[obs'.notif[1][1]]
           /\ ~heap'[hmDevices[obs'.notif[1][1]]].IsConnected]_vars

\* C15 happens: the motor registered on port 1 was reported detached and its
\* record is still there
DetachedMotorKept ==
  /\ Handled(<<1, 0, 0, 1>>)
  /\ hmDevices[1] # 0
  /\ heap[hmDevices[1]] =
       [PortID |-> 1, DeviceType |-> DEVICE_TYPE_MOTOR, IsConnected |-> FALSE]

\* the setup write of the given device type is among the writes the
\* detection task made on its current port
Probed(d, dtype) ==
  \E i \in 1..Len(th[d].io) :
    /\ th[d].io[i].uuid = INPUT_COMMAND_UUID
    /\ th[d].io[i].data = ConfigureFrame(th[d].port, dtype)

\* C18: a detection pass on the empty port 2 whose motor probe failed on its
\* write and whose tilt probe got its setup write accepted registers, if it
\* registers anything, a motion sensor: the tilt sensor is not registered
\* without a sensor read that echoes port 2
UnechoedTiltNotRegistered ==
  \A d \in DetTasks :
    (/\ th[d].op = "Detect"
     /\ th[d].pc = "det_scan"
     /\ th[d].port = 2
     /\ Probed(d, DEVICE_TYPE_TILT_SENSOR)
     /\ hmDevices[2] # 0)
    => heap[hmDevices[2]].DeviceType = DEVICE_TYPE_MOTION_SENSOR

DetectionFollowsConnect ==
  \A d \in DetTasks :
    (th[d].pc \in {"det_wait", "det_enter"} /\ isConnected)
    => \/ ENABLED DetectorCheck(d)
       \/ \E c \in {rwWriter} \cap Clients : ENABLED StepOf(c)

\* the Device most recently upserted for the port, 0 when there was none
LatestFor(p) ==
  LET ids == {i \in 1..Len(heap) : heap[i].PortID = p}
  IN IF ids = {} THEN 0 ELSE CHOOSE i \in ids : \A j \in ids : j <= i

\* C16: whatever upserts the notification handler and the detection
\* goroutine have made, the registry holds for each upserted port exactly the
\* record upserted last for it, and no record for a port never upserted
LastUpsertWins == \A p \in Ports : hmDevices[p] = LatestFor(p)

ExpectedType(op) ==
  CASE op \in {"SetMotorPower", "SetMotorPowerAndWait"} -> DEVICE_TYPE_MOTOR
    [] op = "SetLEDColor" -> DEVICE_TYPE_RGB_LIGHT
    [] OTHER -> DEVICE_TYPE_PIEZO_TONE

\* the registry has a connected device of the given type on the port
ConnectedAs(port, dtype) ==
  /\ hmDevices[port] # 0
  /\ heap[hmDevices[port]].IsConnected
  /\ heap[hmDevices[port]].DeviceType = dtype

\* C21: SetMotorPower, SetLEDColor, PlayTone and PlayToneAndWait return an
\* error and write nothing when the registry has no connected device of the
\* expected type on the port, a port without a record included
ActuatorNeedsDevice ==
  (/\ Returned({"SetMotorPower", "SetLEDColor", "PlayTone", "PlayToneAndWait"})
   /\ ~ConnectedAs(obs.ret[1].port, ExpectedType(obs.ret[1].op)))
  => obs.ret[1].res # "ok" /\ obs.ret[1].io = <<>>

\* the first frame and the stop frame of a synchronous command
RunFrame(r) ==
  IF r.op = "SetMotorPowerAndWait" THEN MotorFrame(r.port, r.power)
  ELSE ToneFrame(r.port, r.freq, r.dur)
HaltFrame(r) ==
  IF r.op = "SetMotorPowerAndWait" THEN <<r.port, 1, 1, 0>> ELSE <<r.port, 3, 0>>
OutputWrite(c, data) == IO(c, "write", OUTPUT_COMMAND_UUID, data)

\* a synchronous command returned after its first write was accepted
WaitedAndReturned ==
  /\ Returned({"SetMotorPowerAndWait", "PlayToneAndWait"})
  /\ obs.ret[1].res = "ok"

LedWriteReturned ==
  /\ Returned({"SetLEDColor"})
  /\ obs.ret[1].res \in {"ok", "WriteFailed"}

\* C23: SetLEDColor on a connected session with an RGB light writes the colour
\* frame <<6, 4, 3, r, g, b>> to the output-command characteristic whether or
\* not the RGB-mode writes to the input-command characteristic succeeded, and
\* returns the outcome of that last write alone
ColourWrittenDespiteSetup ==
  /\ LedWriteReturned =>
       LET r == obs.ret[1]
           n == Len(r.io)
       IN /\ n \in 1..3
          /\ r.io[n] = OutputWrite(r.who, <<6, 4, 3, LedColor[1], LedColor[2], LedColor[3]>>)
          /\ obs.wire = <<r.io[n]>>
          /\ \A i \in 1..(n - 1) : r.io[i].uuid = INPUT_COMMAND_UUID
  /\ (/\ Returned({"SetLEDColor"})
      /\ isConnected
      /\ OUTPUT_COMMAND_UUID \in characteristics
      /\ ConnectedAs(obs.ret[1].port, DEVICE_TYPE_RGB_LIGHT))
     => LedWriteReturned

\* C23 happens: the RGB-mode write and its fallback reached the adapter, the
\* first was refused, and SetLEDColor returned nil after the colour write
ColourSentAfterFailedSetup ==
  /\ LedWriteReturned
  /\ obs.ret[1].res = "ok"
  /\ Len(obs.ret[1].io) = 3
  /\ ConnectedAs(obs.ret[1].port, DEVICE_TYPE_RGB_LIGHT)

\* a motor command returned after its power frame went out
MotorFrameSent ==
  /\ Returned({"SetMotorPower", "SetMotorPowerAndWait"})
  /\ obs.ret[1].io # <<>>
  /\ Len(obs.ret[1].io[1].data) = 4
\* the speed byte of that frame
SentSpeedByte == obs.ret[1].io[1].data[4]
ForwardBand == 16..100
ReverseBand == 156..240

\* C24: the speed byte is 0x00 exactly when power is 0, lies in 0x10..0x64
\* for every power in 1..100 and in 0x9C..0xF0 for every power in -100..-1
SpeedBandMatchesSign ==
  MotorFrameSent =>
    LET p == obs.ret[1].power IN
    /\ SentSpeedByte = 0 <=> p = 0
    /\ p \in 1..100 => SentSpeedByte \in ForwardBand
    /\ p \in -100..-1 => SentSpeedByte \in ReverseBand
    /\ ForwardBand \cap ReverseBand = {}

\* C24 happens: full reverse power was sent as 0x9C
FullReverseSent ==
  /\ MotorFrameSent
  /\ obs.ret[1].power = -100
  /\ SentSpeedByte = 156

\* C25: within 1..100 and within -100..-1 a larger power never gets a smaller
\* speed byte
SpeedMonotonicInBand ==
  MotorFrameSent =>
    LET p == obs.ret[1].power IN
    /\ p \in 1..100 => \A q \in 1..100 : q <= p => SpeedByte(q) <= SentSpeedByte
    /\ p \in -100..-1 => \A q \in -100..-1 : q <= p => SpeedByte(q) <= SentSpeedByte

\* C25 happens: the weakest reverse power was sent as the top of its band
WeakestReverseSent ==
  /\ MotorFrameSent
  /\ obs.ret[1].power = -1
  /\ SentSpeedByte = 240

\* the nearest power within -100..100
ClampedPower(p) == IF p > 100 THEN 100 ELSE IF p < -100 THEN -100 ELSE p

\* C26: for every int8 power the speed byte is that of the nearest power in
\* -100..100, so it is 0x00 or lies in one of the two bands
OutOfRangePowerClamped ==
  MotorFrameSent =>
    /\ SentSpeedByte = SpeedByte(ClampedPower(obs.ret[1].power))
    /\ SentSpeedByte \in {0} \cup ForwardBand \cup ReverseBand

\* a tone command returned after its tone frame went out
ToneFrameSent ==
  /\ Returned({"PlayTone", "PlayToneAndWait"})
  /\ obs.ret[1].io # <<>>

\* C27: the tone frame is <<port, 2, 4, freqLo, freqHi, durLo, durHi>>, every
\* byte within 0..255, with freqHi*256 + freqLo the frequency and
\* durHi*256 + durLo the duration
ToneFrameReconstructs ==
  ToneFrameSent =>
    LET r == obs.ret[1]
        d == r.io[1].data
    IN /\ Len(d) = 7
       /\ d[1] = r.port /\ d[2] = 2 /\ d[3] = 4
       /\ \A i \in 1..7 : d[i] \in 0..255
       /\ d[5] * 256 + d[4] = r.freq
       /\ d[7] * 256 + d[6] = r.dur

\* C27 happens: PlayTone sent the largest frequency with a duration of 256 ms
HighestToneSent ==
  /\ ToneFrameSent
  /\ obs.ret[1].op = "PlayTone"
  /\ obs.ret[1].freq = 65535
  /\ obs.ret[1].dur = 256

\* C28: a WriteCharacteristic or ReadCharacteristic call that finds the
\* session connected and its UUID missing from the characteristic table
\* returns the unknown-characteristic error, issues no adapter read or write,
\* and leaves the session connected
RawCallNeedsKnownUUID ==
  [][\A c \in Clients :
       (/\ th[c].op \in RawOps
        /\ th[c].pc \in {"w_check", "r_check"}
        /\ isConnected
        /\ th[c].uuid \notin characteristics
        /\ th'[c] # th[c])
       => /\ obs'.wire = <<>>
          /\ Len(obs'.ret) = 1
          /\ obs'.ret[1].who = c
          /\ obs'.ret[1].res = "UnknownCharacteristic"
          /\ obs'.ret[1].io = <<>>
          /\ isConnected'
          /\ UNCHANGED characteristics]_vars

\* C28 happens: on a connected session whose table holds the output-command
\* characteristic, a raw call with another UUID was refused
UnknownUUIDRefused ==
  /\ isConnected
  /\ OUTPUT_COMMAND_UUID \in characteristics
  /\ Returned(RawOps)
  /\ obs.ret[1].res = "UnknownCharacteristic"
  /\ obs.ret[1].uuid = ABSENT_UUID

\* the writes the detection task d issued to the output-command
\* characteristic for the port it is probing
ProbeOutputs(d) ==
  SelectSeq(th[d].io, LAMBDA w : w.uuid = OUTPUT_COMMAND_UUID /\ w.data[1] = th[d].port)

\* the detection task d has decided about the motor candidate of its port:
\* it is registering it, has registered it, or has moved on to another
\* candidate
MotorProbeDecided(d) ==
  /\ th[d].op = "Detect"
  /\ th[d].port \in {1, 2}
  /\ \/ th[d].pc \in {"det_store", "det_write", "det_raced", "det_scan"}
     \/ th[d].dtype # DEVICE_TYPE_MOTOR

\* C29: once the detector has issued the motor run frame to a port, it issues
\* the stop frame <<port, 1, 1, 0>> to that port before it decides about the
\* candidate, whether or not the run write was accepted: at the decision the
\* last output command of the probe is the stop frame
ProbeActuationStopped ==
  \A d \in DetTasks :
    (MotorProbeDecided(d) /\ ProbeOutputs(d) # <<>>)
    => ProbeOutputs(d)[Len(ProbeOutputs(d))].data = <<th[d].port, 1, 1, 0>>

\* the candidates manualDeviceDetection tries after the given device type
LaterCandidates(dtype) ==
  {probeOrder[j] : j \in {k \in 1..Len(probeOrder) :
                           \E i \in 1..Len(probeOrder) : probeOrder[i] = dtype /\ k > i}}

\* C30: a detection task registers at most one device per port and pass: the
\* candidate it registers is the one whose probe it just finished, with no
\* later candidate tried, and the task then leaves the port for good; a
\* failed probe step moves to the candidate next in the list and changes
\* nothing else; after the last candidate failed the task leaves the port
\* with the registry as it was, no device callback and no error returned
OneDevicePerPortAndPass ==
  [][\A d \in DetTasks :
       (th[d].op = "Detect" /\ th'[d] # th[d]) =>
         LET t == th[d]
             n == th'[d]
             probing == t.pc \in {"w_check", "w_io"} /\ t.port \in {1, 2}
         IN /\ IF t.pc \in {"det_write", "det_raced"}
               THEN /\ heap' = Append(heap, [PortID |-> t.port, DeviceType |-> t.dtype,
                                             IsConnected |-> TRUE])
                    /\ \A p \in Ports \ {t.port} : hmDevices'[p] = hmDevices[p]
                    /\ n.pc = "det_scan"
                    /\ n.port = t.port
                    /\ \A k \in LaterCandidates(t.dtype) : ~Probed(d, k)
               ELSE UNCHANGED registryVars
            /\ t.pc = "det_scan" => n.pc = "idle" \/ n.port > t.port
            /\ (probing /\ n.dtype # t.dtype)
               => /\ \E i \in 1..(Len(probeOrder) - 1) :
                       t.dtype = probeOrder[i] /\ n.dtype = probeOrder[i + 1]
                  /\ n.port = t.port
                  /\ n.pc = "w_check" /\ n.phase = 1
                  /\ obs'.ret = <<>> /\ obs'.devCb = <<>>
            /\ (probing /\ n.pc = "det_scan")
               => /\ t.dtype = probeOrder[Len(probeOrder)]
                  /\ obs'.ret = <<>> /\ obs'.devCb = <<>>]_vars

\* C30 happens: after a failed motor probe the task registered the tilt
\* sensor on port 1 and did not try the motion sensor
SecondCandidateRegistered ==
  \E d \in DetTasks :
    /\ th[d].op = "Detect"
    /\ th[d].pc = "det_scan"
    /\ th[d].port = 1
    /\ Probed(d, DEVICE_TYPE_MOTOR)
    /\ ~Probed(d, DEVICE_TYPE_MOTION_SENSOR)
    /\ hmDevices[1] # 0
    /\ heap[hmDevices[1]].DeviceType = DEVICE_TYPE_TILT_SENSOR

\* the sensor candidates of the detector
SensorTypes == {DEVICE_TYPE_TILT_SENSOR, DEVICE_TYPE_MOTION_SENSOR}

\* C31: a detection task that is about to register a tilt or motion sensor
\* has read the sensor values during the probe of the port: an accepted
\* setup write alone does not get a sensor registered
SensorRegisteredOnEcho ==
  \A d \in DetTasks :
    (/\ th[d].op = "Detect"
     /\ th[d].pc \in {"det_store", "det_write", "det_raced"}
     /\ th[d].dtype \in SensorTypes)
    => \E i \in 1..Len(th[d].io) : th[d].io[i].kind = "read"

\* the ports of portsToCheck after the given one without a confirmed
\* identity: no record, or a record that is not connected
Unconfirmed(after) ==
  SelectSeq(portsToCheck,
            LAMBDA p : p > after /\ (hmDevices[p] = 0 \/ ~heap[hmDevices[p]].IsConnected))

\* C32: a detection pass goes, from the port it finished, to the next of the
\* ports 1, 2, 6 whose record is missing or not connected, and ends when
\* there is none: it skips exactly the ports with a connected device
PassProbesUnconfirmedPorts ==
  [][\A d \in DetTasks :
       (th[d].op = "Detect" /\ th[d].pc = "det_scan" /\ th'[d] # th[d])
       => IF Unconfirmed(th[d].port) = <<>>
          THEN th'[d].pc = "idle"
          ELSE th'[d].port = Head(Unconfirmed(th[d].port))]_vars

\* C33: a detection task starts port 1 with the motor candidate and port 2
\* with a sensor candidate, goes on port 1 from the motor to the sensors and
\* on port 2 from the sensors to the motor, and on port 6 has the RGB light
\* as its only candidate
ProbeOrderByPort ==
  [][\A d \in DetTasks :
       (th[d].op = "Detect" /\ th'[d].op = "Detect" /\ th'[d] # th[d]) =>
         LET t == th[d]
             n == th'[d]
         IN /\ (n.port # t.port /\ n.port = 1) => n.dtype = DEVICE_TYPE_MOTOR
            /\ (n.port # t.port /\ n.port = 2) => n.dtype \in SensorTypes
            /\ (n.port = t.port /\ n.dtype # t.dtype /\ n.port = 1)
               => t.dtype = DEVICE_TYPE_MOTOR \/ n.dtype \in SensorTypes
            /\ (n.port = t.port /\ n.dtype # t.dtype /\ n.port = 2)
               => t.dtype \in SensorTypes
            /\ n.port = 6 => n.dtype = DEVICE_TYPE_RGB_LIGHT]_vars

\* C34: the stores into the port-to-Device map exclude each other: no
\* detection task has its store overlapped by the store of the notification
\* handler or of another detection task
RegistryAccessSerialized ==
  /\ Cardinality(MapWriters) <= 1
  /\ \A d \in DetTasks : th[d].pc # "det_raced"

\* C35: while the session is not connected the registry reports no device as
\* connected
NoDeviceConnectedWhenClosed ==
  ~isConnected =>
    \A p \in Ports : hmDevices[p] # 0 => ~heap[hmDevices[p]].IsConnected

\* C36: when a device-change callback is delivered and no configure
\* goroutine is left to run, the device delivered has the device type and
\* the connected flag of the registry's record for its port
ObserverViewCurrent ==
  (/\ obs.devCb # <<>>
   /\ \A c \in CfgTasks : th[c].pc = "idle"
   /\ hmDevices[obs.devCb[1].PortID] # 0)
  => LET seen == obs.devCb[1]
         held == heap[hmDevices[seen.PortID]]
     IN /\ seen.DeviceType = held.DeviceType
        /\ seen.IsConnected = held.IsConnected

\* C37: every record the Device Manager holds has the device type and the
\* connected flag of the Hub Session's record for the same port
ManagerAgreesWithSession ==
  \A p \in Ports :
    dmDevices[p] # 0 =>
      /\ hmDevices[p] # 0
      /\ heap[dmDevices[p]].DeviceType = heap[hmDevices[p]].DeviceType
      /\ heap[dmDevices[p]].IsConnected = heap[hmDevices[p]].IsConnected

\* C38: the goroutine SetMotorPower starts for a duration > 0 is never left
\* without a step to take: once it has sent the stop frame and reached its
\* send on the done channel, it can go on and end
StopTaskEnds ==
  \A c \in StopTasks :
    th[c].pc = "chan_send" => ENABLED (CommandNext /\ th'[c] # th[c])

\* the executors inside the loop of executeProgram
ExecutingBlocks == {e \in Executors : pm[e].pc \in {"loop", "in_block", "next"}}

\* C39: at most one executeProgram goroutine executes blocks at any time
OneExecutorAtATime == Cardinality(ExecutingBlocks) <= 1

\* the step of executor e enters a block, leaves the loop, ends the run
EntersBlock(e) == pm[e].pc = "loop" /\ pm'[e].pc = "in_block"
LeavesLoop(e) == pm[e].pc \in {"loop", "in_block", "next"} /\ pm'[e].pc = "end"
Sweeps(e) == pm[e].pc = "sweep" /\ pm'[e] # pm[e]

\* the next block of the one executor e has just run is not in the program
NextIsMissing(e) ==
  LET id == program[pm[e].cur].NextBlockID IN id > 0 /\ id \notin DOMAIN program

====
